---- MODULE Spec2Model ----
(***************************************************************************)
(* Model of include/linux/nospec.h (branch-free index and pointer          *)
(* sanitizers) and of tools/testing/selftests/x86/suspend_msr_restore.c    *)
(* (MSR suspend/restore selftest).                                         *)
(*                                                                         *)
(* Machine words are modelled with BITS_PER_LONG bits; all word arithmetic *)
(* is taken modulo 2^BITS_PER_LONG, signed values are two's complement and *)
(* >> on a signed long is an arithmetic shift (what every compiler the     *)
(* kernel builds with generates).                                          *)
(***************************************************************************)
EXTENDS Integers, FiniteSets, Sequences, TLC

VARIABLES
    \* ---- caller sequence around array_index_nospec() ----
    ipc,         \* position in "if (index < size) { index = ...; val = array[index]; }"
    itype,       \* C type of index: [signed, bits]
    arg,         \* value of index on entry (bit pattern in its type)
    index,       \* the caller's variable index
    size,        \* size, already converted to unsigned long
    speculative, \* TRUE when the CPU ran past a failed bounds check
    mask,        \* _mask inside array_index_nospec
    val_idx,     \* index the array access used
    again,       \* result of a second array_index_nospec(index, size)
    \* ---- magic_neq_nospec() ----
    mpc,         \* position inside the macro
    p,           \* the pointer handed in
    gtype,       \* C type of p->spec_magic
    spec_magic,  \* p->spec_magic in memory (bit pattern in its type)
    mtype,       \* C type of magic
    magic,       \* magic (bit pattern in its type)
    guard,       \* _p_spec_magic
    nmask,       \* _mask inside magic_neq_nospec
    q,           \* value of the macro
    \* ---- suspend_msr_restore main() ----
    tpc,         \* position in main()
    uid_root,    \* getuid() == 0
    available_cpus,
    cpu,
    i,
    msrs,        \* the msr_cache array, indexed by cpu * num_msrs + i
    total_tests,
    succeeded,
    suspended,   \* suspend() was called
    suspend_ret, \* what suspend() returned
    reread,      \* per slot, what the msr_read() after resume gave: "none" (not
                 \* read), "same" (read, value as cached) or "bad" (failed or differs)
    exit_code

ivars == <<ipc, itype, arg, index, size, speculative, mask, val_idx, again>>
mvars == <<mpc, p, gtype, spec_magic, mtype, magic, guard, nmask, q>>
tvars == <<tpc, uid_root, available_cpus, cpu, i, msrs, total_tests,
           succeeded, suspended, suspend_ret, reread, exit_code>>
vars == <<ivars, mvars, tvars>>

(***************************************************************************)
(* Machine words                                                           *)
(***************************************************************************)
BITS_PER_LONG == 6

Modulus == 2 ^ BITS_PER_LONG
Word == 0 .. (Modulus - 1)
AllOnes == Modulus - 1
SignBit == 2 ^ (BITS_PER_LONG - 1)

\* Integer types of the build.  A type strictly narrower than long has at
\* most half its bits (char, short, int against a 64-bit long; char, short
\* against a 32-bit one).
NarrowWidths == 1 .. (BITS_PER_LONG \div 2)
Widths == NarrowWidths \cup {BITS_PER_LONG}
Types == [signed : BOOLEAN, bits : Widths]
ULong == [signed |-> FALSE, bits |-> BITS_PER_LONG]
ValuesOf(t) == 0 .. (2 ^ t.bits - 1)

RECURSIVE BitAnd(_, _), BitOr(_, _), BitXor(_, _)
BitAnd(x, y) ==
    IF x = 0 \/ y = 0 THEN 0
    ELSE (IF x % 2 = 1 /\ y % 2 = 1 THEN 1 ELSE 0)
         + 2 * BitAnd(x \div 2, y \div 2)
BitOr(x, y) ==
    IF x = 0 THEN y
    ELSE IF y = 0 THEN x
    ELSE (IF x % 2 = 1 \/ y % 2 = 1 THEN 1 ELSE 0)
         + 2 * BitOr(x \div 2, y \div 2)
BitXor(x, y) ==
    IF x = 0 THEN y
    ELSE IF y = 0 THEN x
    ELSE (IF x % 2 # y % 2 THEN 1 ELSE 0)
         + 2 * BitXor(x \div 2, y \div 2)

\* unsigned wrap-around of an arithmetic result
Wrap(n) == n % Modulus
\* (long)u
ToLong(u) == IF u >= SignBit THEN u - Modulus ELSE u
\* (unsigned long)s
ToULong(s) == s % Modulus
\* ~s on a signed long
NotLong(s) == (0 - s) - 1
\* s >> k on a signed long
Sar(s, k) == s \div (2 ^ k)
\* u >> k on an unsigned long
Shr(u, k) == u \div (2 ^ k)

\* conversion of a value of type t to unsigned long at a call or in "&"
Convert_zeroextend(v, t) == v

Convert(v, t) ==
    IF t.signed /\ v >= 2 ^ (t.bits - 1)
    THEN v + (Modulus - 2 ^ t.bits)
    ELSE v
\* (typeof(x)) u
CastTo(t, u) == u % (2 ^ t.bits)
\* the number a bit pattern of type t stands for
ValueOf(v, t) ==
    IF t.signed /\ v >= 2 ^ (t.bits - 1) THEN v - 2 ^ t.bits ELSE v

(***************************************************************************)
(* nospec.h: array_index_mask_nospec, array_index_nospec                   *)
(***************************************************************************)
array_index_mask_nospec_offbyone(idx, sz) ==
    ToULong(Sar(NotLong(ToLong(BitOr(idx, Wrap(sz - idx)))),
                BITS_PER_LONG - 1))
array_index_mask_nospec_unsigned(idx, sz) ==
    Shr(ToULong(NotLong(ToLong(BitOr(idx, Wrap(sz - 1 - idx))))),
        BITS_PER_LONG - 1)

array_index_mask_nospec(idx, sz) ==
    ToULong(Sar(NotLong(ToLong(BitOr(idx, Wrap(sz - 1 - idx)))),
                BITS_PER_LONG - 1))

array_index_nospec(idx, sz, t) ==
    LET _i == idx
        _s == sz
        _mask == array_index_mask_nospec(Convert(_i, t), _s)
    IN  CastTo(t, BitAnd(Convert(_i, t), _mask))

(***************************************************************************)
(* The caller sequence of nospec.h:                                        *)
(*     if (index < size) {                                                 *)
(*         index = array_index_nospec(index, size);                        *)
(*         val = array[index];                                             *)
(*     }                                                                   *)
(* The CPU may run the body although index >= size (speculation past the   *)
(* bounds check).                                                          *)
(***************************************************************************)
IndexIdle ==
    /\ ipc = "idle" /\ itype = ULong /\ arg = 0 /\ index = 0 /\ size = 0
    /\ speculative = FALSE /\ mask = 0 /\ val_idx = 0 /\ again = 0

IndexStart ==
    /\ ipc = "check"
    /\ itype \in Types
    /\ arg \in ValuesOf(itype)
    /\ index = arg
    /\ size \in Word
    /\ speculative = FALSE /\ mask = 0 /\ val_idx = 0 /\ again = 0

BoundsCheckPass ==
    /\ ipc = "check"
    /\ Convert(index, itype) < size
    /\ ipc' = "sanitize"
    /\ UNCHANGED <<itype, arg, index, size, speculative, mask, val_idx, again>>
    /\ UNCHANGED <<mvars, tvars>>

BoundsCheckFail ==
    /\ ipc = "check"
    /\ ~(Convert(index, itype) < size)
    /\ ipc' = "skipped"
    /\ UNCHANGED <<itype, arg, index, size, speculative, mask, val_idx, again>>
    /\ UNCHANGED <<mvars, tvars>>

BoundsCheckMispredict ==
    /\ ipc = "check"
    /\ ~(Convert(index, itype) < size)
    /\ ipc' = "sanitize"
    /\ speculative' = TRUE
    /\ UNCHANGED <<itype, arg, index, size, mask, val_idx, again>>
    /\ UNCHANGED <<mvars, tvars>>

Sanitize ==
    /\ ipc = "sanitize"
    /\ mask' = array_index_mask_nospec(Convert(index, itype), size)
    /\ index' = array_index_nospec(index, size, itype)
    /\ ipc' = "access"
    /\ UNCHANGED <<itype, arg, size, speculative, val_idx, again>>
    /\ UNCHANGED <<mvars, tvars>>

ArrayAccess ==
    /\ ipc = "access"
    /\ val_idx' = index
    /\ ipc' = "accessed"
    /\ UNCHANGED <<itype, arg, index, size, speculative, mask, again>>
    /\ UNCHANGED <<mvars, tvars>>

SanitizeAgain ==
    /\ ipc = "access"
    /\ again' = array_index_nospec(index, size, itype)
    /\ ipc' = "resanitized"
    /\ UNCHANGED <<itype, arg, index, size, speculative, mask, val_idx>>
    /\ UNCHANGED <<mvars, tvars>>

NextIndex ==
    \/ BoundsCheckPass
    \/ BoundsCheckFail
    \/ BoundsCheckMispredict
    \/ Sanitize
    \/ ArrayAccess
    \/ SanitizeAgain

(***************************************************************************)
(* nospec.h: neq_mask_nospec, magic_neq_nospec                             *)
(***************************************************************************)
neq_mask_nospec_nodec(x, y) ==
    ToULong(Sar(ToLong(BitXor(BitXor(x, y), BitXor(x, y))),
                BITS_PER_LONG - 1))
neq_mask_nospec_unsigned(x, y) ==
    Shr(BitXor(BitXor(x, y), Wrap(BitXor(x, y) - 1)), BITS_PER_LONG - 1)

neq_mask_nospec(x, y) ==
    ToULong(Sar(ToLong(BitXor(BitXor(x, y), Wrap(BitXor(x, y) - 1))),
                BITS_PER_LONG - 1))

magic_neq_nospec_or(ptr, sm, gt, mg, mt) ==
    LET _mask == neq_mask_nospec(Convert(sm, gt), Convert(mg, mt))
    IN  BitOr(ptr, _mask)

magic_neq_nospec(ptr, sm, gt, mg, mt) ==
    LET _p == ptr
        _p_spec_magic == sm
        _magic == mg
        _mask == neq_mask_nospec(Convert(_p_spec_magic, gt),
                                 Convert(_magic, mt))
    IN  BitAnd(_p, _mask)

\* Pointers handed to the macro: low, sign bit set, high.
Pointers == {1, SignBit + 2, AllOnes - 1}

MagicIdle ==
    /\ mpc = "idle" /\ p = 0 /\ gtype = ULong /\ spec_magic = 0
    /\ mtype = ULong /\ magic = 0 /\ guard = 0 /\ nmask = 0 /\ q = 0

MagicStart ==
    /\ mpc = "load"
    /\ p \in Pointers
    /\ gtype \in Types
    /\ spec_magic \in ValuesOf(gtype)
    /\ mtype \in Types
    /\ magic \in ValuesOf(mtype)
    /\ guard = 0 /\ nmask = 0 /\ q = 0

\* typeof(_p->spec_magic) _p_spec_magic = (_p->spec_magic);
MagicLoad ==
    /\ mpc = "load"
    /\ guard' = spec_magic
    /\ mpc' = "mask"
    /\ UNCHANGED <<p, gtype, spec_magic, mtype, magic, nmask, q>>
    /\ UNCHANGED <<ivars, tvars>>

\* _mask = neq_mask_nospec(_p_spec_magic, _magic); (typeof(_p))(_p & _mask)
MagicSanitize ==
    /\ mpc = "mask"
    /\ nmask' = neq_mask_nospec(Convert(guard, gtype), Convert(magic, mtype))
    /\ q' = magic_neq_nospec(p, guard, gtype, magic, mtype)
    /\ mpc' = "done"
    /\ UNCHANGED <<p, gtype, spec_magic, mtype, magic, guard>>
    /\ UNCHANGED <<ivars, tvars>>

NextMagic ==
    \/ MagicLoad
    \/ MagicSanitize

(***************************************************************************)
(* suspend_msr_restore.c                                                   *)
(***************************************************************************)
MSR_IA32_SPEC_CTRL == 72
MSR_IA32_TSX_CTRL == 290
MSR_TSX_FORCE_ABORT == 271
MSR_IA32_MCU_OPT_CTRL == 291
ENODEV == 19

\* number of MSRs under test (a prefix of the table in main) and of
\* configured CPUs, get_nprocs_conf()
num_msrs == 1
max_cpus == 2
\* MSR contents range over 0 .. MaxMsrVal
MaxMsrVal == 1

msr_id == <<MSR_IA32_SPEC_CTRL, MSR_IA32_TSX_CTRL, MSR_TSX_FORCE_ABORT,
            MSR_IA32_MCU_OPT_CTRL>>
Cpus == 0 .. (max_cpus - 1)
Slots == 0 .. (max_cpus * num_msrs - 1)
MsrVals == 0 .. MaxMsrVal

\* What the machine does on one msr_read(): open() of /dev/cpu/N/msr works
\* or not, pread() returns all sizeof(long long) bytes or not, and the data.
Reads == [open_ok : BOOLEAN, full : BOOLEAN, data : MsrVals]

\* msr_read(): return value and *msr_val (old is the caller's msr_val)
msr_read(r, old) ==
    IF ~r.open_ok THEN [ret |-> 0 - ENODEV, val |-> old]
    ELSE IF ~r.full THEN [ret |-> 1, val |-> old]
    ELSE [ret |-> 0, val |-> r.data]

\* suspend(): the step that fails, if any
SuspendFailures == {"none", "open", "timerfd_create", "timerfd_settime", "write"}
suspend(f) == IF f = "none" THEN 0 ELSE 0 - 1

NoEntry == [msr_id |-> 0, msr_val |-> 0, valid |-> FALSE]

\* body of the verification loop, lines 160-176: the new value of succeeded
check_restored_ignore_mismatch(entry, rd, succ) ==
    IF rd.ret # 0 THEN FALSE ELSE succ

check_restored(entry, rd, succ) ==
    IF rd.ret # 0 THEN FALSE
    ELSE IF entry.msr_val # rd.val THEN FALSE
    ELSE succ

MsrIdle ==
    /\ tpc = "idle" /\ uid_root = FALSE /\ available_cpus = {}
    /\ cpu = 0 /\ i = 0 /\ msrs = [s \in Slots |-> NoEntry]
    /\ total_tests = 0 /\ succeeded = TRUE /\ suspended = FALSE
    /\ suspend_ret = 0 /\ reread = [s \in Slots |-> "none"]
    /\ exit_code = "none"

MsrStart ==
    /\ tpc = "getuid"
    /\ uid_root \in BOOLEAN
    /\ available_cpus = {}
    /\ cpu = 0 /\ i = 0 /\ msrs = [s \in Slots |-> NoEntry]
    /\ total_tests = 0 /\ succeeded = TRUE /\ suspended = FALSE
    /\ suspend_ret = 0 /\ reread = [s \in Slots |-> "none"]
    /\ exit_code = "none"

\* ksft_exit_fail_msg()
ExitFail ==
    /\ tpc' = "exited"
    /\ exit_code' = "fail"

CheckRoot ==
    /\ tpc = "getuid"
    /\ IF ~uid_root THEN ExitFail ELSE tpc' = "affinity" /\ UNCHANGED exit_code
    /\ UNCHANGED <<uid_root, available_cpus, cpu, i, msrs, total_tests,
                   succeeded, suspended, suspend_ret, reread>>
    /\ UNCHANGED <<ivars, mvars>>

GetAffinity ==
    /\ tpc = "affinity"
    /\ \E err \in {0 - 1, 0}, set \in SUBSET Cpus :
          IF err < 0
          THEN ExitFail /\ UNCHANGED available_cpus
          ELSE /\ available_cpus' = set
               /\ tpc' = "calloc"
               /\ UNCHANGED exit_code
    /\ UNCHANGED <<uid_root, cpu, i, msrs, total_tests, succeeded, suspended,
                   suspend_ret, reread>>
    /\ UNCHANGED <<ivars, mvars>>

Calloc ==
    /\ tpc = "calloc"
    /\ \E ok \in BOOLEAN :
          IF ~ok
          THEN ExitFail /\ UNCHANGED <<msrs, cpu>>
          ELSE /\ msrs' = [s \in Slots |-> NoEntry]
               /\ cpu' = 0
               /\ tpc' = "cache_cpu"
               /\ UNCHANGED exit_code
    /\ UNCHANGED <<uid_root, available_cpus, i, total_tests, succeeded,
                   suspended, suspend_ret, reread>>
    /\ UNCHANGED <<ivars, mvars>>

\* for (cpu = 0; cpu < max_cpus; cpu++), lines 133-136
CacheCpu ==
    /\ tpc = "cache_cpu"
    /\ IF cpu >= max_cpus
       THEN tpc' = "suspend" /\ UNCHANGED <<cpu, i>>
       ELSE IF cpu \notin available_cpus
       THEN cpu' = cpu + 1 /\ UNCHANGED <<tpc, i>>
       ELSE i' = 0 /\ tpc' = "cache_msr" /\ UNCHANGED cpu
    /\ UNCHANGED <<uid_root, available_cpus, msrs, total_tests, succeeded,
                   suspended, suspend_ret, reread, exit_code>>
    /\ UNCHANGED <<ivars, mvars>>

\* for (i = 0; i < num_msrs; i++, msr_idx++), lines 137-144
CacheMsr ==
    /\ tpc = "cache_msr"
    /\ IF i >= num_msrs
       THEN /\ cpu' = cpu + 1
            /\ tpc' = "cache_cpu"
            /\ UNCHANGED <<i, msrs, total_tests>>
       ELSE \E r \in Reads :
              LET msr_idx == cpu * num_msrs + i
                  rd == msr_read(r, 0)
              IN  /\ IF rd.ret = 0
                     THEN /\ msrs' = [msrs EXCEPT ![msr_idx] =
                                        [msr_id |-> msr_id[i + 1],
                                         msr_val |-> rd.val,
                                         valid |-> TRUE]]
                          /\ total_tests' = total_tests + 1
                     ELSE UNCHANGED <<msrs, total_tests>>
                  /\ i' = i + 1
                  /\ UNCHANGED <<cpu, tpc>>
    /\ UNCHANGED <<uid_root, available_cpus, succeeded, suspended,
                   suspend_ret, reread, exit_code>>
    /\ UNCHANGED <<ivars, mvars>>

\* ksft_set_plan(total_tests); if (suspend()) { succeeded = false; goto cleanup; }
Suspend ==
    /\ tpc = "suspend"
    /\ \E f \in SuspendFailures :
          /\ suspend_ret' = suspend(f)
          /\ IF suspend(f) # 0
             THEN succeeded' = FALSE /\ tpc' = "cleanup" /\ UNCHANGED cpu
             ELSE cpu' = 0 /\ tpc' = "verify_cpu" /\ UNCHANGED succeeded
    /\ suspended' = TRUE
    /\ UNCHANGED <<uid_root, available_cpus, i, msrs, total_tests, reread,
                   exit_code>>
    /\ UNCHANGED <<ivars, mvars>>

\* for (cpu = 0; cpu < max_cpus; cpu++), lines 154-158
VerifyCpu ==
    /\ tpc = "verify_cpu"
    /\ IF cpu >= max_cpus
       THEN tpc' = "cleanup" /\ UNCHANGED <<cpu, i>>
       ELSE IF cpu \notin available_cpus
       THEN cpu' = cpu + 1 /\ UNCHANGED <<tpc, i>>
       ELSE i' = 0 /\ tpc' = "verify_msr" /\ UNCHANGED cpu
    /\ UNCHANGED <<uid_root, available_cpus, msrs, total_tests, succeeded,
                   suspended, suspend_ret, reread, exit_code>>
    /\ UNCHANGED <<ivars, mvars>>

\* for (i = 0; i < num_msrs; i++, msr_idx++), lines 159-177
VerifyMsr ==
    /\ tpc = "verify_msr"
    /\ IF i >= num_msrs
       THEN /\ cpu' = cpu + 1
            /\ tpc' = "verify_cpu"
            /\ UNCHANGED <<i, succeeded, reread>>
       ELSE LET msr_idx == cpu * num_msrs + i IN
            IF ~msrs[msr_idx].valid
            THEN i' = i + 1 /\ UNCHANGED <<cpu, tpc, succeeded, reread>>
            ELSE \E r \in Reads :
                   LET rd == msr_read(r, 0) IN
                   /\ reread' = [reread EXCEPT ![msr_idx] =
                                   IF rd.ret = 0
                                      /\ rd.val = msrs[msr_idx].msr_val
                                   THEN "same" ELSE "bad"]
                   /\ succeeded' = check_restored(msrs[msr_idx], rd, succeeded)
                   /\ i' = i + 1
                   /\ UNCHANGED <<cpu, tpc>>
    /\ UNCHANGED <<uid_root, available_cpus, msrs, total_tests, suspended,
                   suspend_ret, exit_code>>
    /\ UNCHANGED <<ivars, mvars>>

\* cleanup: free(msrs); ksft_exit_pass() or ksft_exit_fail()
Cleanup ==
    /\ tpc = "cleanup"
    /\ exit_code' = IF succeeded THEN "pass" ELSE "fail"
    /\ tpc' = "exited"
    /\ UNCHANGED <<uid_root, available_cpus, cpu, i, msrs, total_tests,
                   succeeded, suspended, suspend_ret, reread>>
    /\ UNCHANGED <<ivars, mvars>>

NextMsr ==
    \/ CheckRoot
    \/ GetAffinity
    \/ Calloc
    \/ CacheCpu
    \/ CacheMsr
    \/ Suspend
    \/ VerifyCpu
    \/ VerifyMsr
    \/ Cleanup

(***************************************************************************)
(* Specifications                                                          *)
(***************************************************************************)
InitIndex == IndexStart /\ MagicIdle /\ MsrIdle
SpecIndex == InitIndex /\ [][NextIndex]_vars

InitMagic == IndexIdle /\ MagicStart /\ MsrIdle
SpecMagic == InitMagic /\ [][NextMagic]_vars

InitMsr == IndexIdle /\ MagicIdle /\ MsrStart
SpecMsr == InitMsr /\ [][NextMsr]_vars

\* both halves of nospec.h
InitNospec == InitIndex \/ InitMagic
NextNospec == NextIndex \/ NextMagic
SpecNospec == InitNospec /\ [][NextNospec]_vars

Init == InitIndex \/ InitMagic \/ InitMsr
Next == NextIndex \/ NextMagic \/ NextMsr
Spec == Init /\ [][Next]_vars

(***************************************************************************)
(* Properties                                                              *)
(***************************************************************************)

\* C1: for unsigned words index < size, size >= 1, over the whole word
\* range, array_index_mask_nospec gives all-ones and array_index_nospec
\* gives index back.
C1_InBoundsKeepsIndex ==
    (/\ ipc \in {"access", "accessed", "resanitized"}
     /\ itype = ULong
     /\ size >= 1
     /\ arg < size)
    => (mask = AllOnes /\ index = arg)

\* C2: for index >= size (size = 0, index = size, index at the maximum
\* with size = 1 included) array_index_mask_nospec gives all-zeros and
\* array_index_nospec gives 0.
C2_OutOfBoundsClamps ==
    (/\ ipc \in {"access", "accessed", "resanitized"}
     /\ Convert(arg, itype) >= size)
    => (mask = 0 /\ index = 0)

C2_Witness ==
    /\ ipc = "access"
    /\ itype = ULong
    /\ arg = AllOnes
    /\ size = 1
    /\ mask = 0
    /\ index = 0

C4_MagicGuardsPointer ==
    mpc = "done" =>
        IF Convert(guard, gtype) = Convert(magic, mtype)
        THEN q = p
        ELSE q = 0

\* C5: in the caller sequence with size >= 1 the index used for the array
\* access lies in [0, size), also when the bounds check was speculatively
\* bypassed with an out-of-range index.
C5_AccessInBounds ==
    (ipc = "accessed" /\ size >= 1)
    => (ValueOf(val_idx, itype) >= 0 /\ ValueOf(val_idx, itype) < size)

C5_Witness ==
    /\ ipc = "accessed"
    /\ speculative
    /\ size >= 1
    /\ Convert(arg, itype) > size
    /\ val_idx = 0

C7_Idempotent ==
    ipc = "resanitized" => again = index

C7_Witness ==
    /\ ipc = "resanitized"
    /\ speculative
    /\ arg # 0
    /\ index = 0
    /\ again = 0

\* C8: with guard and magic both of a type narrower than the word, the XOR
\* of the widened values is never exactly the sign bit, and
\* magic_neq_nospec gives p exactly when the widened values are equal and
\* null otherwise.
C8_NarrowMagicExact ==
    (/\ mpc = "done"
     /\ gtype.bits \in NarrowWidths
     /\ mtype.bits \in NarrowWidths)
    => LET x == Convert(guard, gtype)
           y == Convert(magic, mtype)
       IN  /\ BitXor(x, y) # SignBit
           /\ IF x = y THEN q = p ELSE q = 0

C8_Witness ==
    /\ mpc = "done"
    /\ gtype.bits \in NarrowWidths /\ gtype.signed
    /\ mtype.bits = gtype.bits /\ ~mtype.signed
    /\ guard = magic
    /\ Convert(guard, gtype) >= SignBit
    /\ q = 0

\* C9: a negative index of a signed type is sign-extended before masking,
\* so for every size the mask is all-zeros and the result is 0, a value of
\* the index's own type.
C9_NegativeIndexClamps ==
    (/\ ipc \in {"access", "accessed", "resanitized"}
     /\ itype.signed
     /\ ValueOf(arg, itype) < 0)
    => (mask = 0 /\ index = 0 /\ index \in ValuesOf(itype))

C9_Witness ==
    /\ ipc = "access"
    /\ ~speculative
    /\ itype.signed
    /\ itype.bits \in NarrowWidths
    /\ ValueOf(arg, itype) < 0
    /\ index = 0

\* C10: the test exits with pass only if suspend() succeeded and every slot
\* read before suspend was read again after resume with the same value; a
\* failed suspend, a failed re-read or a mismatch makes it exit with fail;
\* slots not read before suspend are never read again or compared.
C10_PassIffRestored ==
    /\ \A s \in Slots : ~msrs[s].valid => reread[s] = "none"
    /\ tpc = "exited" =>
          /\ exit_code = "pass" =>
                /\ suspended /\ suspend_ret = 0
                /\ \A s \in Slots : msrs[s].valid => reread[s] = "same"
          /\ (\/ (suspended /\ suspend_ret # 0)
              \/ \E s \in Slots : msrs[s].valid /\ reread[s] = "bad")
                => exit_code = "fail"

C10_Witness ==
    /\ tpc = "exited"
    /\ exit_code = "pass"
    /\ \E s \in Slots : msrs[s].valid /\ reread[s] = "same"
    /\ \E s \in Slots : ~msrs[s].valid /\ (s \div num_msrs) \in available_cpus
====
